---------------------------- MODULE Spec2Model ----------------------------
(***************************************************************************)
(* Model of the markdown transformation engine of app/main.py:             *)
(*   escape_markdown_v2, escape_markdown_v2_url, escape_markdown_v2_code,  *)
(*   _format_table_block, _format_inline, _format_line,                    *)
(*   format_for_markdown_v2, _utf16_offset_to_index, apply_entities and    *)
(*   split_message.                                                        *)
(*                                                                         *)
(* A Python str is modelled as a sequence of code points; each code point  *)
(* is a one-element token (a TLA+ string).  Control characters and the     *)
(* characters SANY cannot hold in a string literal carry a name.           *)
(***************************************************************************)
EXTENDS Integers, Sequences, FiniteSets, TLC

VARIABLES
    pc,               \* position of the running function
    text,             \* the str argument of the running function
    limit,            \* split_message: limit
    lines,            \* text.splitlines(keepends=True)
    index,            \* loop index into lines / entities (1-based)
    current,          \* split_message: current
    chunks,           \* split_message: chunks
    in_code_block,    \* format_for_markdown_v2: in_code_block
    formatted_lines,  \* format_for_markdown_v2: formatted_lines
    entities,         \* apply_entities: entities
    inserts,          \* apply_entities: inserts
    result,           \* return value of escape_markdown_v2 / apply_entities
    rows,             \* _format_table_block: rows
    rendered          \* _format_table_block: rendered

vars == <<pc, text, limit, lines, index, current, chunks, in_code_block,
          formatted_lines, entities, inserts, result, rows, rendered>>

-----------------------------------------------------------------------------
(* Code points *)

LF  == "LF"          \* "\n"
CR  == "CR"          \* "\r"
TAB == "TAB"         \* "\t"
BT  == "BACKTICK"    \* "`"
BSL == "\\"          \* "\"
SP  == " "
ASTRAL == "U+1F600"  \* a code point above U+FFFF (two UTF-16 code units)

\* str.strip() and the regex class \s, over the code points of the model
IsSpace(c) == c \in {SP, TAB, LF, CR}

-----------------------------------------------------------------------------
(* Sequence helpers: the str operations the code uses *)

Min(a, b) == IF a <= b THEN a ELSE b
Max(a, b) == IF a >= b THEN a ELSE b

\* all sequences over S of length 0..n
SeqsUpTo(S, n) == UNION {[1..k -> S] : k \in 0..n}

\* s[a:b] of Python (0-based, half-open, clamped)
Slice(s, a, b) == SubSeq(s, Min(a, Len(s)) + 1, Min(b, Len(s)))

\* "".join(parts)
RECURSIVE Join(_)
Join(parts) ==
    IF parts = <<>> THEN <<>> ELSE Head(parts) \o Join(Tail(parts))

\* sep.join(parts)
RECURSIVE JoinWith(_, _)
JoinWith(sep, parts) ==
    IF parts = <<>> THEN <<>>
    ELSE IF Len(parts) = 1 THEN parts[1]
    ELSE parts[1] \o sep \o JoinWith(sep, Tail(parts))

\* s.startswith(p)
StartsWith(s, p) == Len(s) >= Len(p) /\ SubSeq(s, 1, Len(p)) = p

\* s.endswith(p)
EndsWith(s, p) ==
    Len(s) >= Len(p) /\ SubSeq(s, Len(s) - Len(p) + 1, Len(s)) = p

\* c in s
Contains(s, c) == \E i \in 1..Len(s) : s[i] = c

\* s.lstrip()
RECURSIVE LStrip(_)
LStrip(s) ==
    IF s # <<>> /\ IsSpace(Head(s)) THEN LStrip(Tail(s)) ELSE s

\* s.rstrip()
RECURSIVE RStrip(_)
RStrip(s) ==
    IF s # <<>> /\ IsSpace(s[Len(s)])
    THEN RStrip(SubSeq(s, 1, Len(s) - 1)) ELSE s

\* s.strip()
Strip(s) == LStrip(RStrip(s))

\* s.rstrip("\r\n")
RECURSIVE RStripNewlines(_)
RStripNewlines(s) ==
    IF s # <<>> /\ s[Len(s)] \in {LF, CR}
    THEN RStripNewlines(SubSeq(s, 1, Len(s) - 1)) ELSE s

\* c * n
Repeat(c, n) == [i \in 1..n |-> c]

-----------------------------------------------------------------------------
(* str.splitlines(keepends=True): lines end at "\n", "\r" or "\r\n"; the    *)
(* terminator stays on the line; a trailing terminator opens no empty line. *)
(* (The other Unicode line boundaries are not code points of the model.)    *)

RECURSIVE SplitLinesFrom(_, _, _, _)
SplitLinesFrom(s, i, cur, acc) ==
    IF i > Len(s)
    THEN IF cur = <<>> THEN acc ELSE Append(acc, cur)
    ELSE IF s[i] = CR /\ i < Len(s) /\ s[i + 1] = LF
    THEN SplitLinesFrom(s, i + 2, <<>>, Append(acc, cur \o <<CR, LF>>))
    ELSE IF s[i] \in {LF, CR}
    THEN SplitLinesFrom(s, i + 1, <<>>, Append(acc, Append(cur, s[i])))
    ELSE SplitLinesFrom(s, i + 1, Append(cur, s[i]), acc)

\* faulty variant: keepends=False
RECURSIVE SplitLinesDropEndsFrom(_, _, _, _)
SplitLinesDropEndsFrom(s, i, cur, acc) ==
    IF i > Len(s)
    THEN IF cur = <<>> THEN acc ELSE Append(acc, cur)
    ELSE IF s[i] = CR /\ i < Len(s) /\ s[i + 1] = LF
    THEN SplitLinesDropEndsFrom(s, i + 2, <<>>, Append(acc, cur))
    ELSE IF s[i] \in {LF, CR}
    THEN SplitLinesDropEndsFrom(s, i + 1, <<>>, Append(acc, cur))
    ELSE SplitLinesDropEndsFrom(s, i + 1, Append(cur, s[i]), acc)

SplitLinesDropEnds(s) == SplitLinesDropEndsFrom(s, 1, <<>>, <<>>)

SplitLines(s) == SplitLinesFrom(s, 1, <<>>, <<>>)

-----------------------------------------------------------------------------
(* split_message(text, limit) *)

MaxSplitLen == 5     \* longest text given to split_message
MaxLimit    == 3     \* largest limit given to split_message

SplitAlphabet == {"a", "b", LF, CR}

\* len(current) + len(line) <= limit
Fits(cur, line, lim) == Len(cur) + Len(line) <= lim

\* faulty variant: the buffer is appended even when it is empty
FlushAlways(cs, cur) == Append(cs, cur)

\* if current: chunks.append(current)
Flush(cs, cur) == IF cur # <<>> THEN Append(cs, cur) ELSE cs

\* the while loop slicing an oversized line into chunks
RECURSIVE SliceLine(_, _, _)
SliceLine(line, start, lim) ==
    IF start < Len(line)
    THEN LET end == Min(start + lim, Len(line))
         IN  <<Slice(line, start, end)>> \o SliceLine(line, end, lim)
    ELSE <<>>

InitSplit ==
    /\ text \in SeqsUpTo(SplitAlphabet, MaxSplitLen)
    /\ limit \in 1..MaxLimit
    /\ lines = SplitLines(text)
    /\ index = 1
    /\ current = <<>>
    /\ chunks = <<>>
    /\ pc = "split"
    /\ in_code_block = FALSE
    /\ formatted_lines = <<>>
    /\ entities = <<>>
    /\ inserts = <<>>
    /\ result = <<>>
    /\ rows = <<>>
    /\ rendered = <<>>

\* loop body, the line fits into the buffer
SplitAppend ==
    /\ pc = "split"
    /\ index <= Len(lines)
    /\ Fits(current, lines[index], limit)
    /\ current' = current \o lines[index]
    /\ index' = index + 1
    /\ UNCHANGED <<pc, text, limit, lines, chunks, in_code_block,
                   formatted_lines, entities, inserts, result, rows, rendered>>

\* loop body, overflow, the pending line starts the next buffer
SplitFlushStart ==
    /\ pc = "split"
    /\ index <= Len(lines)
    /\ ~Fits(current, lines[index], limit)
    /\ Len(lines[index]) <= limit
    /\ chunks' = Flush(chunks, current)
    /\ current' = lines[index]
    /\ index' = index + 1
    /\ UNCHANGED <<pc, text, limit, lines, in_code_block,
                   formatted_lines, entities, inserts, result, rows, rendered>>

\* faulty variant: the last piece of an oversized line stays in the buffer
SplitFlushSliceKeepTail ==
    /\ pc = "split"
    /\ index <= Len(lines)
    /\ ~Fits(current, lines[index], limit)
    /\ Len(lines[index]) > limit
    /\ LET pieces == SliceLine(lines[index], 0, limit)
       IN  /\ chunks' = Flush(chunks, current)
                            \o SubSeq(pieces, 1, Len(pieces) - 1)
           /\ current' = pieces[Len(pieces)]
    /\ index' = index + 1
    /\ UNCHANGED <<pc, text, limit, lines, in_code_block,
                   formatted_lines, entities, inserts, result, rows, rendered>>

\* loop body, overflow, the pending line alone exceeds the limit
SplitFlushSlice ==
    /\ pc = "split"
    /\ index <= Len(lines)
    /\ ~Fits(current, lines[index], limit)
    /\ Len(lines[index]) > limit
    /\ chunks' = Flush(chunks, current) \o SliceLine(lines[index], 0, limit)
    /\ current' = <<>>
    /\ index' = index + 1
    /\ UNCHANGED <<pc, text, limit, lines, in_code_block,
                   formatted_lines, entities, inserts, result, rows, rendered>>

\* after the loop: the final flush and the return
SplitFinish ==
    /\ pc = "split"
    /\ index > Len(lines)
    /\ chunks' = Flush(chunks, current)
    /\ pc' = "split_done"
    /\ UNCHANGED <<text, limit, lines, index, current, in_code_block,
                   formatted_lines, entities, inserts, result, rows, rendered>>

NextSplit ==
    \/ SplitAppend
    \/ SplitFlushStart
    \/ SplitFlushSlice
    \/ SplitFinish

SpecSplit == InitSplit /\ [][NextSplit]_vars

\* total length of the first k elements of a list of strings
RECURSIVE C9_SumLen(_, _)
C9_SumLen(ss, k) == IF k = 0 THEN 0 ELSE Len(ss[k]) + C9_SumLen(ss, k - 1)

\* C1: when split_message returns, the chunks joined in order are exactly
\* the input text (nothing dropped, duplicated or reordered).
C1_RoundTrip == pc = "split_done" => Join(chunks) = text

C1_Witness ==
    /\ pc = "split_done"
    /\ Len(chunks) >= 2
    /\ Len(lines) >= 3
    /\ \E i \in 1..Len(lines) : Len(lines[i]) > limit

\* C2: every chunk appended so far has between 1 and limit characters, and
\* the returned list is empty exactly when the input text is empty.
C2_ChunkSizes ==
    /\ \A k \in 1..Len(chunks) : Len(chunks[k]) >= 1 /\ Len(chunks[k]) <= limit
    /\ pc = "split_done" => (chunks = <<>> <=> text = <<>>)

C2_Witness ==
    /\ pc = "split_done"
    /\ Len(chunks) >= 2
    /\ \E k \in 1..Len(chunks) : Len(chunks[k]) = limit
    /\ \E k \in 1..Len(chunks) : Len(chunks[k]) < limit

\* offsets in the text at which a chunk ends (0 and the total included)
C9_ChunkBounds == {C9_SumLen(chunks, k) : k \in 0..Len(chunks)}

\* C9: when split_message returns, no chunk boundary falls inside a line of
\* at most limit characters; a longer line starts and ends on a chunk
\* boundary and is cut exactly every limit characters from its start.
C9_LineBoundaries ==
    pc = "split_done" =>
        \A i \in 1..Len(lines) :
            LET from == C9_SumLen(lines, i - 1)
                to   == C9_SumLen(lines, i)
                inside == {b \in C9_ChunkBounds : from < b /\ b < to}
            IN  IF Len(lines[i]) <= limit
                THEN inside = {}
                ELSE /\ from \in C9_ChunkBounds
                     /\ to \in C9_ChunkBounds
                     /\ inside = {b \in (from + 1)..(to - 1) :
                                     (b - from) % limit = 0}

C9_Witness ==
    /\ pc = "split_done"
    /\ limit >= 2
    /\ \E i \in 2..(Len(lines) - 1) :
          /\ Len(lines[i]) > limit
          /\ Len(lines[i]) % limit # 0

-----------------------------------------------------------------------------
(* The escapers: escape_markdown_v2, escape_markdown_v2_url,               *)
(* escape_markdown_v2_code                                                  *)

MaxEscapeLen == 2    \* longest text given to an escaper

\* faulty variant: the character class without the backslash
SpecialCharsNoBackslash ==
    {"_", "*", "[", "]", "(", ")", "~", BT, ">", "#", "+", "-", "=", "|",
     "{", "}", ".", "!"}

\* the character class of _ESCAPE_PATTERN: re.escape() of
\* r"_*[]()~`>#+-=|{}.!\\" between [ and ]
MARKDOWN_V2_SPECIAL_CHARS ==
    {"_", "*", "[", "]", "(", ")", "~", BT, ">", "#", "+", "-", "=", "|",
     "{", "}", ".", "!", BSL}

\* the character class of _URL_ESCAPE_PATTERN: [)\\]
URL_SPECIAL_CHARS == {")", BSL}

\* pattern.sub(r"\\\1", s) for a pattern that is one character class
RECURSIVE SubBackslash(_, _)
SubBackslash(class, s) ==
    IF s = <<>> THEN <<>>
    ELSE (IF Head(s) \in class THEN <<BSL, Head(s)>> ELSE <<Head(s)>>)
         \o SubBackslash(class, Tail(s))

\* s.replace(c, rep) for a one-character c
RECURSIVE Replace(_, _, _)
Replace(s, c, rep) ==
    IF s = <<>> THEN <<>>
    ELSE (IF Head(s) = c THEN rep ELSE <<Head(s)>>)
         \o Replace(Tail(s), c, rep)

escape_markdown_v2(s) == SubBackslash(MARKDOWN_V2_SPECIAL_CHARS, s)

escape_markdown_v2_url(url) == SubBackslash(URL_SPECIAL_CHARS, url)

escape_markdown_v2_code(s) ==
    Replace(Replace(s, BSL, <<BSL, BSL>>), BT, <<BSL, BT>>)

EscapeAlphabet ==
    {"_", "*", "[", "]", "(", ")", "~", BT, ">", "#", "+", "-", "=", "|",
     "{", "}", ".", "!", BSL, "a", SP, ASTRAL}

InitEscape ==
    /\ text \in SeqsUpTo(EscapeAlphabet, MaxEscapeLen)
    /\ pc = "escape"
    /\ result = <<>>
    /\ limit = 0
    /\ lines = <<>>
    /\ index = 1
    /\ current = <<>>
    /\ chunks = <<>>
    /\ in_code_block = FALSE
    /\ formatted_lines = <<>>
    /\ entities = <<>>
    /\ inserts = <<>>
    /\ rows = <<>>
    /\ rendered = <<>>

EscapeText ==
    /\ pc = "escape"
    /\ result' = escape_markdown_v2(text)
    /\ pc' = "escape_text_done"
    /\ UNCHANGED <<text, limit, lines, index, current, chunks, in_code_block,
                   formatted_lines, entities, inserts, rows, rendered>>

EscapeUrl ==
    /\ pc = "escape"
    /\ result' = escape_markdown_v2_url(text)
    /\ pc' = "escape_url_done"
    /\ UNCHANGED <<text, limit, lines, index, current, chunks, in_code_block,
                   formatted_lines, entities, inserts, rows, rendered>>

EscapeCode ==
    /\ pc = "escape"
    /\ result' = escape_markdown_v2_code(text)
    /\ pc' = "escape_code_done"
    /\ UNCHANGED <<text, limit, lines, index, current, chunks, in_code_block,
                   formatted_lines, entities, inserts, rows, rendered>>

NextEscape ==
    \/ EscapeText
    \/ EscapeUrl
    \/ EscapeCode

SpecEscape == InitEscape /\ [][NextEscape]_vars

\* the reserved characters as the claim lists them
C8_Reserved ==
    {"_", "*", "[", "]", "(", ")", "~", BT, ">", "#", "+", "-", "=", "|",
     "{", "}", ".", "!", BSL}

\* position in the escaped text of the i-th character of the text
C8_Pos(i) == i + Cardinality({j \in 1..i : text[j] \in C8_Reserved})

\* C8: escape_markdown_v2(text) is the text with exactly one backslash
\* inserted before each reserved character: the i-th character sits at
\* i + (number of reserved characters up to and including i), a reserved
\* one has a backslash right before it, and nothing else is in the result.
C8_EscapeText ==
    pc = "escape_text_done" =>
        /\ Len(result) = C8_Pos(Len(text))
        /\ \A i \in 1..Len(text) :
              /\ result[C8_Pos(i)] = text[i]
              /\ text[i] \in C8_Reserved => result[C8_Pos(i) - 1] = BSL

C8_Witness ==
    /\ pc = "escape_text_done"
    /\ Len(text) = 2
    /\ text[1] = BSL
    /\ text[2] \notin C8_Reserved
    /\ Len(result) = 3

-----------------------------------------------------------------------------
(* _split_table_row, _format_table_block *)

MaxTableLineLen == 4   \* longest raw line given to _format_table_block
MaxTableLines   == 2   \* most lines given to _format_table_block

TableAlphabet == {"a", SP, "|"}

\* s.split(c) for a one-character separator: always at least one piece
RECURSIVE SplitOnFrom(_, _, _, _)
SplitOnFrom(s, c, cur, acc) ==
    IF s = <<>> THEN Append(acc, cur)
    ELSE IF Head(s) = c THEN SplitOnFrom(Tail(s), c, <<>>, Append(acc, cur))
    ELSE SplitOnFrom(Tail(s), c, Append(cur, Head(s)), acc)

SplitOn(s, c) == SplitOnFrom(s, c, <<>>, <<>>)

_split_table_row(line) ==
    LET stripped == Strip(line)
        s1 == IF StartsWith(stripped, <<"|">>) THEN Tail(stripped) ELSE stripped
        s2 == IF EndsWith(s1, <<"|">>) THEN SubSeq(s1, 1, Len(s1) - 1) ELSE s1
        cells == SplitOn(s2, "|")
    IN  [k \in 1..Len(cells) |-> Strip(cells[k])]

\* faulty variant: the column count of the header row
ColCountOfHeader(rs) == Len(rs[1])

\* col_count = max(len(row) for row in rows)
RECURSIVE ColCount(_)
ColCount(rs) ==
    IF Len(rs) = 1 THEN Len(rs[1])
    ELSE Max(Len(rs[1]), ColCount(Tail(rs)))

\* row[idx] if idx < len(row) else ""     (idx is 1-based here)
CellAt(row, idx) == IF idx <= Len(row) THEN row[idx] ELSE <<>>

\* widths: starting from [0] * col_count, the running max over the rows
RECURSIVE Widths(_, _)
Widths(rs, cc) ==
    IF rs = <<>> THEN [idx \in 1..cc |-> 0]
    ELSE LET before == Widths(SubSeq(rs, 1, Len(rs) - 1), cc)
             row == rs[Len(rs)]
         IN  [idx \in 1..cc |-> Max(before[idx], Len(CellAt(row, idx)))]

\* cell.ljust(width)
LJust(cell, width) ==
    IF Len(cell) >= width THEN cell
    ELSE cell \o Repeat(SP, width - Len(cell))

\* render_row(row)
RenderRow(row, cc, widths) ==
    <<"|", SP>>
    \o JoinWith(<<SP, "|", SP>>,
                [idx \in 1..cc |-> LJust(CellAt(row, idx), widths[idx])])
    \o <<SP, "|">>

\* the divider row under the header
RenderDivider(cc, widths) ==
    <<"|", SP>>
    \o JoinWith(<<SP, "|", SP>>, [idx \in 1..cc |-> Repeat("-", widths[idx])])
    \o <<SP, "|">>

\* the rendered rows of a non-empty list of parsed rows
RenderRows(rs) ==
    LET cc == ColCount(rs)
        widths == Widths(rs, cc)
    IN  <<RenderRow(rs[1], cc, widths), RenderDivider(cc, widths)>>
        \o [k \in 1..(Len(rs) - 1) |-> RenderRow(rs[k + 1], cc, widths)]

\* _format_table_block(lines), after the parsing loop
_format_table_block_rows(rs) == IF rs = <<>> THEN <<>> ELSE RenderRows(rs)

\* _format_table_block(lines)
_format_table_block(ls) ==
    _format_table_block_rows([k \in 1..Len(ls) |-> _split_table_row(ls[k])])

InitTable ==
    /\ pc = "table_parse"
    /\ rows = <<>>
    /\ rendered = <<>>
    /\ text = <<>>
    /\ limit = 0
    /\ lines = <<>>
    /\ index = 1
    /\ current = <<>>
    /\ chunks = <<>>
    /\ in_code_block = FALSE
    /\ formatted_lines = <<>>
    /\ entities = <<>>
    /\ inserts = <<>>
    /\ result = <<>>

\* one round of the parsing loop, on the next line of the block
TableParseLine ==
    /\ pc = "table_parse"
    /\ Len(rows) < MaxTableLines
    /\ \E line \in SeqsUpTo(TableAlphabet, MaxTableLineLen) :
          rows' = Append(rows, _split_table_row(line))
    /\ UNCHANGED <<pc, text, limit, lines, index, current, chunks,
                   in_code_block, formatted_lines, entities, inserts, result,
                   rendered>>

\* if not rows: return []
TableEmpty ==
    /\ pc = "table_parse"
    /\ rows = <<>>
    /\ rendered' = <<>>
    /\ pc' = "table_done"
    /\ UNCHANGED <<text, limit, lines, index, current, chunks, in_code_block,
                   formatted_lines, entities, inserts, result, rows>>

\* the widths, the header, the divider and the data rows
TableRender ==
    /\ pc = "table_parse"
    /\ rows # <<>>
    /\ rendered' = _format_table_block_rows(rows)
    /\ pc' = "table_done"
    /\ UNCHANGED <<text, limit, lines, index, current, chunks, in_code_block,
                   formatted_lines, entities, inserts, result, rows>>

NextTable ==
    \/ TableParseLine
    \/ TableEmpty
    \/ TableRender

SpecTable == InitTable /\ [][NextTable]_vars

\* the largest cell count over the parsed rows
C7_ColCount ==
    CHOOSE n \in {Len(rows[r]) : r \in 1..Len(rows)} :
        \A r \in 1..Len(rows) : Len(rows[r]) <= n

\* the largest length of the i-th cell over the parsed rows
C7_Width(i) ==
    LET lens == {IF i <= Len(rows[r]) THEN Len(rows[r][i]) ELSE 0 :
                    r \in 1..Len(rows)}
    IN  CHOOSE w \in lens : \A v \in lens : v <= w

\* C7: for a non-empty table block, header, divider and every data row are
\* rendered, each is "|"-framed with exactly col_count cells between the
\* bars (col_count the largest cell count of the input rows), and the i-th
\* divider cell is widths[i] dashes between its two padding spaces
\* (widths[i] the largest length of the i-th cell, a missing cell being "").
C7_TableShape ==
    (pc = "table_done" /\ rows # <<>>) =>
        /\ Len(rendered) = Len(rows) + 1
        /\ \A k \in 1..Len(rendered) :
              LET pieces == SplitOn(rendered[k], "|")
              IN  /\ Len(pieces) = C7_ColCount + 2
                  /\ pieces[1] = <<>>
                  /\ pieces[Len(pieces)] = <<>>
        /\ \A i \in 1..C7_ColCount :
              SplitOn(rendered[2], "|")[i + 1]
                  = <<SP>> \o Repeat("-", C7_Width(i)) \o <<SP>>

C7_Witness ==
    /\ pc = "table_done"
    /\ Len(rows) = 2
    /\ Len(rows[1]) < Len(rows[2])
    /\ Len(rows[1][1]) > Len(rows[2][1])
    /\ Len(rows[2][2]) > 0

-----------------------------------------------------------------------------
(* _utf16_offset_to_index, apply_entities *)

MaxEntityTextLen == 2   \* longest text given to apply_entities
MaxEntityOffset  == 2   \* largest "offset" and "length" of an entity

EntityAlphabet == {"a", "*", ASTRAL}

None == -1              \* stands for a missing or non-integer "offset"

\* one recognised type per branch of apply_entities, and one it skips
EntityTypes == {"bold", "italic", "code", "pre", "url"}

Entities ==
    [type : EntityTypes,
     offset : (0..MaxEntityOffset) \cup {None},
     length : 0..MaxEntityOffset]

\* faulty variant: every code point counted as one UTF-16 code unit
Utf16UnitsAlwaysOne(ch) == 1

\* 2 if ord(ch) > 0xFFFF else 1
Utf16Units(ch) == IF ch = ASTRAL THEN 2 ELSE 1

\* the loop of _utf16_offset_to_index from code-point index idx (0-based)
\* with count code units walked so far
RECURSIVE Utf16Walk(_, _, _, _)
Utf16Walk(s, offset, idx, count) ==
    IF idx >= Len(s) THEN Len(s)
    ELSE IF count >= offset THEN idx
    ELSE Utf16Walk(s, offset, idx + 1, count + Utf16Units(s[idx + 1]))

_utf16_offset_to_index(s, offset) == Utf16Walk(s, offset, 0, 0)

\* the marker put at the start of an entity of a recognised type
OpenMarker(type) ==
    CASE type = "bold"   -> <<"*", "*">>
      [] type = "italic" -> <<"*">>
      [] type = "code"   -> <<BT>>
      [] type = "pre"    -> <<BT, BT, BT, LF>>

\* the marker put at the end of an entity of a recognised type
CloseMarker(type) ==
    CASE type = "bold"   -> <<"*", "*">>
      [] type = "italic" -> <<"*">>
      [] type = "code"   -> <<BT>>
      [] type = "pre"    -> <<LF, BT, BT, BT>>

\* the entity passes both "continue" tests of the loop
EntityAccepted(e) ==
    /\ e.type \in {"bold", "italic", "code", "pre"}
    /\ e.offset # None
    /\ e.length # None

\* the two inserts.append of one entity: the end first, then the start
EntityInserts(s, e) ==
    LET start == _utf16_offset_to_index(s, e.offset)
        end   == _utf16_offset_to_index(s, e.offset + e.length)
    IN  <<[position |-> end, marker |-> CloseMarker(e.type)],
          [position |-> start, marker |-> OpenMarker(e.type)]>>

\* key(a) > key(b) for key = (position, len(marker))
KeyGreater(a, b) ==
    \/ a.position > b.position
    \/ a.position = b.position /\ Len(a.marker) > Len(b.marker)

\* list.sort(key=..., reverse=True): descending and stable (items of equal
\* key keep their order), as an insertion sort
RECURSIVE InsertSorted(_, _)
InsertSorted(sorted, x) ==
    IF sorted = <<>> THEN <<x>>
    ELSE IF KeyGreater(x, Head(sorted)) THEN <<x>> \o sorted
    ELSE <<Head(sorted)>> \o InsertSorted(Tail(sorted), x)

RECURSIVE SortInserts(_)
SortInserts(items) ==
    IF items = <<>> THEN <<>>
    ELSE InsertSorted(SortInserts(SubSeq(items, 1, Len(items) - 1)),
                      items[Len(items)])

\* the splicing loop: result[:position] + marker + result[position:]
RECURSIVE Splice(_, _)
Splice(s, items) ==
    IF items = <<>> THEN s
    ELSE LET it == Head(items)
         IN  Splice(Slice(s, 0, it.position) \o it.marker
                        \o Slice(s, it.position, Len(s)),
                    Tail(items))

EntityLists1 == {<<>>} \cup {<<e>> : e \in Entities}

EntityLists2 == EntityLists1 \cup {<<e1, e2>> : e1 \in Entities, e2 \in Entities}

InitEntitiesWith(lists) ==
    /\ text \in SeqsUpTo(EntityAlphabet, MaxEntityTextLen)
    /\ entities \in lists
    /\ inserts = <<>>
    /\ index = 1
    /\ result = <<>>
    /\ pc = "entities"
    /\ limit = 0
    /\ lines = <<>>
    /\ current = <<>>
    /\ chunks = <<>>
    /\ in_code_block = FALSE
    /\ formatted_lines = <<>>
    /\ rows = <<>>
    /\ rendered = <<>>

\* apply_entities called with no entity or one
InitEntity == InitEntitiesWith(EntityLists1)

\* apply_entities called with up to two entities
InitEntities == InitEntitiesWith(EntityLists2)

\* if not entities: return text
EntitiesNone ==
    /\ pc = "entities"
    /\ entities = <<>>
    /\ result' = text
    /\ pc' = "entities_done"
    /\ UNCHANGED <<text, limit, lines, index, current, chunks, in_code_block,
                   formatted_lines, entities, inserts, rows, rendered>>

\* loop body: an entity of another type or with a non-integer field
EntitySkip ==
    /\ pc = "entities"
    /\ index <= Len(entities)
    /\ ~EntityAccepted(entities[index])
    /\ index' = index + 1
    /\ UNCHANGED <<pc, text, limit, lines, current, chunks, in_code_block,
                   formatted_lines, entities, inserts, result, rows, rendered>>

\* loop body: the two inserts of a recognised entity
EntityRecord ==
    /\ pc = "entities"
    /\ index <= Len(entities)
    /\ EntityAccepted(entities[index])
    /\ inserts' = inserts \o EntityInserts(text, entities[index])
    /\ index' = index + 1
    /\ UNCHANGED <<pc, text, limit, lines, current, chunks, in_code_block,
                   formatted_lines, entities, result, rows, rendered>>

\* if not inserts: return text
EntitiesNoInserts ==
    /\ pc = "entities"
    /\ entities # <<>>
    /\ index > Len(entities)
    /\ inserts = <<>>
    /\ result' = text
    /\ pc' = "entities_done"
    /\ UNCHANGED <<text, limit, lines, index, current, chunks, in_code_block,
                   formatted_lines, entities, inserts, rows, rendered>>

\* the sort, the splicing loop and the return
EntitiesApply ==
    /\ pc = "entities"
    /\ entities # <<>>
    /\ index > Len(entities)
    /\ inserts # <<>>
    /\ inserts' = SortInserts(inserts)
    /\ result' = Splice(text, SortInserts(inserts))
    /\ pc' = "entities_done"
    /\ UNCHANGED <<text, limit, lines, index, current, chunks, in_code_block,
                   formatted_lines, entities, rows, rendered>>

NextEntities ==
    \/ EntitiesNone
    \/ EntitySkip
    \/ EntityRecord
    \/ EntitiesNoInserts
    \/ EntitiesApply

SpecEntity == InitEntity /\ [][NextEntities]_vars

SpecEntities == InitEntities /\ [][NextEntities]_vars

\* UTF-16 code units taken by the first k code points of the text
C5_Units(k) == k + Cardinality({j \in 1..k : text[j] = ASTRAL})

\* the code-unit offset u is a code-point boundary of the text
C5_OnBoundary(u) == \E k \in 0..Len(text) : C5_Units(k) = u

\* the number of code points before the code-unit offset u
C5_Index(u) == CHOOSE k \in 0..Len(text) : C5_Units(k) = u

\* C5: for a text without literal "*" and a single bold entity whose start
\* and end offsets (in UTF-16 code units) are code-point boundaries of the
\* text, apply_entities returns prefix + "**" + span + "**" + suffix, the
\* three parts being the code points before, inside and after the entity.
C5_BoldRebuilt ==
    ( /\ pc = "entities_done"
      /\ Len(entities) = 1
      /\ entities[1].type = "bold"
      /\ entities[1].offset # None
      /\ ~Contains(text, "*")
      /\ C5_OnBoundary(entities[1].offset)
      /\ C5_OnBoundary(entities[1].offset + entities[1].length) )
    => LET s == C5_Index(entities[1].offset)
           e == C5_Index(entities[1].offset + entities[1].length)
       IN  result = SubSeq(text, 1, s) \o <<"*", "*">> \o SubSeq(text, s + 1, e)
                    \o <<"*", "*">> \o SubSeq(text, e + 1, Len(text))

C5_Witness ==
    /\ pc = "entities_done"
    /\ text = <<ASTRAL, "a">>
    /\ entities = <<[type |-> "bold", offset |-> 2, length |-> 1]>>
    /\ result = <<ASTRAL, "*", "*", "a", "*", "*">>

\* C3: with a non-empty entity list and a literal "*" in the text,
\* apply_entities returns the text unchanged.
C3_SkipOnLiteralMarker ==
    (pc = "entities_done" /\ entities # <<>> /\ Contains(text, "*"))
    => result = text

\* C10: for two entities of recognised types whose non-empty spans are
\* adjacent (the first ends at the code point where the second starts),
\* the result reads: first span in its markers, then second span in its
\* markers (the first's closing marker before the second's opening one).
C10_AdjacentInOrder ==
    ( /\ pc = "entities_done"
      /\ Len(entities) = 2
      /\ EntityAccepted(entities[1])
      /\ EntityAccepted(entities[2])
      /\ C5_OnBoundary(entities[1].offset)
      /\ C5_OnBoundary(entities[2].offset)
      /\ C5_OnBoundary(entities[2].offset + entities[2].length)
      /\ entities[1].length > 0
      /\ entities[2].length > 0
      /\ entities[1].offset + entities[1].length = entities[2].offset )
    => LET s1 == C5_Index(entities[1].offset)
           p  == C5_Index(entities[2].offset)
           e2 == C5_Index(entities[2].offset + entities[2].length)
       IN  result = SubSeq(text, 1, s1)
                    \o OpenMarker(entities[1].type)
                    \o SubSeq(text, s1 + 1, p)
                    \o CloseMarker(entities[1].type)
                    \o OpenMarker(entities[2].type)
                    \o SubSeq(text, p + 1, e2)
                    \o CloseMarker(entities[2].type)
                    \o SubSeq(text, e2 + 1, Len(text))

-----------------------------------------------------------------------------
(* _TOKEN_PATTERN and _format_inline *)

Spaces == {SP, TAB, LF, CR}

\* re.IGNORECASE on the letters of the pattern
Lower(c) ==
    CASE c = "H" -> "h"
      [] c = "T" -> "t"
      [] c = "P" -> "p"
      [] c = "S" -> "s"
      [] OTHER -> c

\* the literal pat stands at position i of s (1-based)
HasAt(s, i, pat) ==
    /\ i >= 1
    /\ i + Len(pat) - 1 <= Len(s)
    /\ \A k \in 1..Len(pat) : Lower(s[i + k - 1]) = pat[k]

\* the first position >= from holding a character of stops, 0 if none
FindFirst(s, from, stops) ==
    LET hits == {j \in from..Len(s) : s[j] \in stops}
    IN  IF hits = {} THEN 0
        ELSE CHOOSE j \in hits : \A h \in hits : j <= h

\* the first position >= from where the literal pat stands, 0 if none
FindSeq(s, from, pat) ==
    LET hits == {j \in from..Len(s) : HasAt(s, j, pat)}
    IN  IF hits = {} THEN 0
        ELSE CHOOSE j \in hits : \A h \in hits : j <= h

\* https?:// at position i: the position after it, 0 if it does not match
SchemeEnd(s, i) ==
    IF HasAt(s, i, <<"h", "t", "t", "p", "s", ":", "/", "/">>) THEN i + 8
    ELSE IF HasAt(s, i, <<"h", "t", "t", "p", ":", "/", "/">>) THEN i + 7
    ELSE 0

\* a match: the position after it (0: no match) and what it renders as
NoMatch == [end |-> 0, out |-> <<>>]

\* (?P<link>\[(?P<link_text>[^\]]+)\]\((?P<link_url>https?://[^\s)]+)\))
MatchLink(s, i) ==
    IF ~HasAt(s, i, <<"[">>) THEN NoMatch
    ELSE LET j == FindFirst(s, i + 1, {"]"})
         IN  IF j < i + 2 \/ ~HasAt(s, j + 1, <<"(">>) THEN NoMatch
             ELSE LET k == SchemeEnd(s, j + 2)
                      stop == FindFirst(s, k, Spaces \cup {")"})
                  IN  IF k = 0 \/ stop = 0 \/ stop = k \/ s[stop] # ")"
                      THEN NoMatch
                      ELSE [end |-> stop + 1,
                            out |-> <<"[">>
                                    \o escape_markdown_v2(SubSeq(s, i + 1, j - 1))
                                    \o <<"]", "(">>
                                    \o escape_markdown_v2_url(
                                           SubSeq(s, j + 2, stop - 1))
                                    \o <<")">>]

\* (?P<code>`(?P<code_text>[^`]+)`)
MatchCode(s, i) ==
    IF ~HasAt(s, i, <<BT>>) THEN NoMatch
    ELSE LET j == FindFirst(s, i + 1, {BT})
         IN  IF j < i + 2 THEN NoMatch
             ELSE [end |-> j + 1,
                   out |-> <<BT>>
                           \o escape_markdown_v2_code(SubSeq(s, i + 1, j - 1))
                           \o <<BT>>]

\* open (.+?) close with open = close = stars: the text is the shortest
\* non-empty run without "\n" that the closing stars follow
MatchStars(s, i, stars, before, after) ==
    IF ~HasAt(s, i, stars) THEN NoMatch
    ELSE LET n == Len(stars)
             j == FindSeq(s, i + n + 1, stars)
         IN  IF j = 0 \/ Contains(SubSeq(s, i + n, j - 1), LF) THEN NoMatch
             ELSE [end |-> j + n,
                   out |-> before
                           \o escape_markdown_v2(SubSeq(s, i + n, j - 1))
                           \o after]

\* (?P<bold_italic>\*\*\*(?P<bold_italic_text>.+?)\*\*\*)
MatchBoldItalic(s, i) ==
    MatchStars(s, i, <<"*", "*", "*">>, <<"*", "_">>, <<"_", "*">>)

\* (?P<bold>\*\*(?P<bold_text>.+?)\*\*)
MatchBold(s, i) == MatchStars(s, i, <<"*", "*">>, <<"*">>, <<"*">>)

\* (?P<italic>(?<!\*)\*(?P<italic_text>[^*\n]+?)\*(?!\*))
MatchItalic(s, i) ==
    IF ~HasAt(s, i, <<"*">>) \/ HasAt(s, i - 1, <<"*">>) THEN NoMatch
    ELSE LET j == FindFirst(s, i + 1, {"*", LF})
         IN  IF j < i + 2 \/ s[j] # "*" \/ HasAt(s, j + 1, <<"*">>)
             THEN NoMatch
             ELSE [end |-> j + 1,
                   out |-> <<"_">>
                           \o escape_markdown_v2(SubSeq(s, i + 1, j - 1))
                           \o <<"_">>]

\* (?P<url>https?://\S+)
MatchUrl(s, i) ==
    LET k == SchemeEnd(s, i)
        stop == FindFirst(s, k, Spaces)
        end == IF stop = 0 THEN Len(s) + 1 ELSE stop
    IN  IF k = 0 \/ end = k THEN NoMatch
        ELSE [end |-> end,
              out |-> <<"[">>
                      \o escape_markdown_v2(SubSeq(s, i, end - 1))
                      \o <<"]", "(">>
                      \o escape_markdown_v2_url(SubSeq(s, i, end - 1))
                      \o <<")">>]

\* the alternation of _TOKEN_PATTERN at position i: the first alternative
\* that matches there
MatchAt(s, i) ==
    IF MatchLink(s, i).end # 0 THEN MatchLink(s, i)
    ELSE IF MatchCode(s, i).end # 0 THEN MatchCode(s, i)
    ELSE IF MatchBoldItalic(s, i).end # 0 THEN MatchBoldItalic(s, i)
    ELSE IF MatchBold(s, i).end # 0 THEN MatchBold(s, i)
    ELSE IF MatchItalic(s, i).end # 0 THEN MatchItalic(s, i)
    ELSE MatchUrl(s, i)

\* the finditer loop of _format_inline: pos is the scan position,
\* last_index the start of the plain run not yet emitted (both 1-based)
RECURSIVE FormatInlineFrom(_, _, _, _)
FormatInlineFrom(s, pos, last_index, acc) ==
    IF pos > Len(s)
    THEN acc \o escape_markdown_v2(SubSeq(s, last_index, Len(s)))
    ELSE LET m == MatchAt(s, pos)
         IN  IF m.end = 0
             THEN FormatInlineFrom(s, pos + 1, last_index, acc)
             ELSE FormatInlineFrom(s, m.end, m.end,
                      acc \o escape_markdown_v2(SubSeq(s, last_index, pos - 1))
                          \o m.out)

_format_inline(s) == FormatInlineFrom(s, 1, 1, <<>>)

-----------------------------------------------------------------------------
(* _format_list_item, _format_line *)

_LIST_MARKERS == <<"EM_DASH", "MIDDLE_DOT", "TRIANGLE", "WHITE_TRIANGLE">>

\* the number of leading characters of s that are in class
RECURSIVE LeadingRun(_, _)
LeadingRun(s, class) ==
    IF s # <<>> /\ Head(s) \in class
    THEN 1 + LeadingRun(Tail(s), class) ELSE 0

\* s[n:]
DropFirst(s, n) == SubSeq(s, n + 1, Len(s))

\* len(indent.replace("\t", "    "))
RECURSIVE _normalize_indent(_)
_normalize_indent(indent) ==
    IF indent = <<>> THEN 0
    ELSE (IF Head(indent) = TAB THEN 4 ELSE 1)
         + _normalize_indent(Tail(indent))

\* _LIST_ITEM_PATTERN.match(content), for a content without line breaks:
\* ^(?P<indent>[ \t]*)(?P<marker>[-*])\s+(?P<body>.*)$
ListItemMatch(content) ==
    LET n == LeadingRun(content, {SP, TAB})
        rest == DropFirst(content, n + 1)
        ws == LeadingRun(rest, Spaces)
    IN  IF n < Len(content) /\ content[n + 1] \in {"-", "*"} /\ ws >= 1
        THEN [ok |-> TRUE, indent |-> SubSeq(content, 1, n),
              body |-> DropFirst(rest, ws)]
        ELSE [ok |-> FALSE, indent |-> <<>>, body |-> <<>>]

\* _CHECKBOX_PATTERN.match(body): ^\[(?P<state>[ xX])\]\s+(?P<text>.*)$
CheckboxMatch(body) ==
    LET rest == DropFirst(body, 3)
        ws == LeadingRun(rest, Spaces)
    IN  IF /\ Len(body) >= 3
           /\ body[1] = "["
           /\ body[2] \in {SP, "x", "X"}
           /\ body[3] = "]"
           /\ ws >= 1
        THEN [ok |-> TRUE, state |-> body[2], text |-> DropFirst(rest, ws)]
        ELSE [ok |-> FALSE, state |-> SP, text |-> <<>>]

\* _format_list_item(content) when the pattern matches
FormatListItem(m) ==
    LET cb == CheckboxMatch(m.body)
        body == IF cb.ok THEN cb.text ELSE m.body
        level == Min(_normalize_indent(m.indent) \div 2, Len(_LIST_MARKERS) - 1)
        box == IF ~cb.ok THEN <<>>
               ELSE IF cb.state \in {"x", "X"} THEN <<"BALLOT_BOX_CHECKED", SP>>
               ELSE <<"BALLOT_BOX", SP>>
    IN  Repeat(SP, 2 * level) \o <<_LIST_MARKERS[level + 1], SP>> \o box
        \o _format_inline(body)

_format_line(content) ==
    IF Strip(content) = <<"-", "-", "-">>
    THEN <<BSL, "=", BSL, "=", BSL, "=", BSL, "=", BSL, "=",
           BSL, "=", BSL, "=", BSL, "=", BSL, "=", BSL, "=">>
    ELSE IF ListItemMatch(content).ok
    THEN FormatListItem(ListItemMatch(content))
    ELSE IF StartsWith(content, <<"#", SP>>)
    THEN <<"_", "_", "*">> \o _format_inline(LStrip(DropFirst(content, 2)))
         \o <<"*", "_", "_">>
    ELSE IF StartsWith(content, <<"#", "#", SP>>)
    THEN <<"*">> \o _format_inline(LStrip(DropFirst(content, 3))) \o <<"*">>
    ELSE IF StartsWith(content, <<"#", "#", "#", SP>>)
    THEN <<"_", "_">> \o _format_inline(LStrip(DropFirst(content, 4)))
         \o <<"_", "_">>
    ELSE IF StartsWith(content, <<">", SP>>)
    THEN <<">", SP>> \o _format_inline(LStrip(DropFirst(content, 2)))
    ELSE _format_inline(content)

-----------------------------------------------------------------------------
(* format_for_markdown_v2 *)

MaxDocLines == 3     \* most lines of a document given to the formatter

FENCE == <<BT, BT, BT>>

\* line contents the documents are built from: plain text, a fence, a table
\* header, a table separator row, emphasis, a code span
DocContents ==
    {<<"a">>, FENCE, <<"a", "|", "b">>, <<"-", "|", "-">>,
     <<"*", "a", "*">>, <<BT, "a", BT>>}

DocTerminators == {<<LF>>, <<CR>>, <<CR, LF>>}

\* the documents of at most n lines; only the last line may lack a terminator
RECURSIVE DocTexts(_)
DocTexts(n) ==
    IF n = 0 THEN {<<>>}
    ELSE {<<>>} \cup DocContents
         \cup {c \o t \o rest :
                  c \in DocContents, t \in DocTerminators,
                  rest \in DocTexts(n - 1)}

\* the terminator split off a line of splitlines(keepends=True)
LineNewline(line) ==
    IF EndsWith(line, <<CR, LF>>) THEN <<CR, LF>>
    ELSE IF EndsWith(line, <<LF>>) \/ EndsWith(line, <<CR>>)
    THEN <<line[Len(line)]>>
    ELSE <<>>

\* the line without its terminator
LineContent(line) == SubSeq(line, 1, Len(line) - Len(LineNewline(line)))

\* content.strip().startswith("```")
IsFenceLine(line) == StartsWith(Strip(LineContent(line)), FENCE)

\* the part of _TABLE_SEPARATOR_PATTERN before its mandatory bar:
\* ^\s*\|?[\s:-]+
SeparatorPrefix(p) ==
    \E ws \in 0..Len(p), bar \in 0..1 :
        /\ ws + bar + 1 <= Len(p)
        /\ \A k \in 1..ws : p[k] \in Spaces
        /\ bar = 1 => p[ws + 1] = "|"
        /\ \A k \in (ws + bar + 1)..Len(p) : p[k] \in Spaces \cup {":", "-"}

\* _TABLE_SEPARATOR_PATTERN.match(s), for s without line breaks:
\* ^\s*\|?[\s:-]+\|[\s|:-]*$
MatchesTableSeparator(s) ==
    \E j \in 1..Len(s) :
        /\ s[j] = "|"
        /\ SeparatorPrefix(SubSeq(s, 1, j - 1))
        /\ \A k \in (j + 1)..Len(s) : s[k] \in Spaces \cup {"|", ":", "-"}

\* the test that opens a table at line i: a bar in the content, a next
\* line, a bar in it and the separator pattern matching it
IsTableStart(ls, i) ==
    /\ Contains(LineContent(ls[i]), "|")
    /\ i + 1 <= Len(ls)
    /\ Contains(RStripNewlines(ls[i + 1]), "|")
    /\ MatchesTableSeparator(RStripNewlines(ls[i + 1]))

\* the while loop collecting the rows after the separator, from line i
RECURSIVE TableCandidates(_, _)
TableCandidates(ls, i) ==
    IF i <= Len(ls) /\ Contains(RStripNewlines(ls[i]), "|")
    THEN <<RStripNewlines(ls[i])>> \o TableCandidates(ls, i + 1)
    ELSE <<>>

\* what the table branch appends to formatted_lines
TableOutput(table_lines, newline) ==
    LET out == _format_table_block(table_lines)
    IN  <<FENCE \o <<LF>>>>
        \o [k \in 1..Len(out) |-> escape_markdown_v2_code(out[k]) \o <<LF>>]
        \o <<FENCE \o newline>>

\* faulty variant: the table test made before the code-block test
BranchTableFirst(ls, i, in_code) ==
    IF IsFenceLine(ls[i]) THEN "fence"
    ELSE IF IsTableStart(ls, i) THEN "table"
    ELSE IF in_code THEN "code"
    ELSE "plain"

\* the branch of the loop body taken for line i
Branch(ls, i, in_code) ==
    IF IsFenceLine(ls[i]) THEN "fence"
    ELSE IF in_code THEN "code"
    ELSE IF IsTableStart(ls, i) THEN "table"
    ELSE "plain"

InitFormat ==
    /\ text \in DocTexts(MaxDocLines)
    /\ lines = SplitLines(text)
    /\ formatted_lines = <<>>
    /\ in_code_block = FALSE
    /\ index = 1
    /\ pc = "format"
    /\ result = <<>>
    /\ limit = 0
    /\ current = <<>>
    /\ chunks = <<>>
    /\ entities = <<>>
    /\ inserts = <<>>
    /\ rows = <<>>
    /\ rendered = <<>>

\* a fence line: toggle in_code_block, emit the line as it is
FormatFence ==
    /\ pc = "format"
    /\ index <= Len(lines)
    /\ Branch(lines, index, in_code_block) = "fence"
    /\ in_code_block' = ~in_code_block
    /\ formatted_lines' =
           Append(formatted_lines,
                  LineContent(lines[index]) \o LineNewline(lines[index]))
    /\ index' = index + 1
    /\ UNCHANGED <<pc, text, limit, lines, current, chunks, entities, inserts,
                   result, rows, rendered>>

\* a line inside a code block
FormatCode ==
    /\ pc = "format"
    /\ index <= Len(lines)
    /\ Branch(lines, index, in_code_block) = "code"
    /\ formatted_lines' =
           Append(formatted_lines,
                  escape_markdown_v2_code(LineContent(lines[index]))
                      \o LineNewline(lines[index]))
    /\ index' = index + 1
    /\ UNCHANGED <<pc, text, limit, lines, current, chunks, in_code_block,
                   entities, inserts, result, rows, rendered>>

\* a table: header, separator and the rows that follow
FormatTable ==
    /\ pc = "format"
    /\ index <= Len(lines)
    /\ Branch(lines, index, in_code_block) = "table"
    /\ LET more == TableCandidates(lines, index + 2)
       IN  /\ formatted_lines' =
                  formatted_lines
                  \o TableOutput(<<LineContent(lines[index])>> \o more,
                                 LineNewline(lines[index]))
           /\ index' = index + 2 + Len(more)
    /\ UNCHANGED <<pc, text, limit, lines, current, chunks, in_code_block,
                   entities, inserts, result, rows, rendered>>

\* any other line
FormatPlain ==
    /\ pc = "format"
    /\ index <= Len(lines)
    /\ Branch(lines, index, in_code_block) = "plain"
    /\ formatted_lines' =
           Append(formatted_lines,
                  _format_line(LineContent(lines[index]))
                      \o LineNewline(lines[index]))
    /\ index' = index + 1
    /\ UNCHANGED <<pc, text, limit, lines, current, chunks, in_code_block,
                   entities, inserts, result, rows, rendered>>

\* return "".join(formatted_lines)
FormatFinish ==
    /\ pc = "format"
    /\ index > Len(lines)
    /\ result' = Join(formatted_lines)
    /\ pc' = "format_done"
    /\ UNCHANGED <<text, limit, lines, index, current, chunks, in_code_block,
                   formatted_lines, entities, inserts, rows, rendered>>

NextFormat ==
    \/ FormatFence
    \/ FormatCode
    \/ FormatTable
    \/ FormatPlain
    \/ FormatFinish

SpecFormat == InitFormat /\ [][NextFormat]_vars

\* the terminator styles of the lines of s
C4_Styles(s) ==
    LET ls == SplitLines(s)
    IN  {LineNewline(ls[k]) : k \in 1..Len(ls)} \ {<<>>}

\* s ends with a line terminator
C4_Terminated(s) == s # <<>> /\ s[Len(s)] \in {LF, CR}

\* C4: when format_for_markdown_v2 returns, the output holds no terminator
\* style ("\n", "\r", "\r\n") that the input does not hold, and it ends
\* with a terminator exactly when the input does.
C4_TerminatorsPreserved ==
    pc = "format_done" =>
        /\ C4_Styles(result) \subseteq C4_Styles(text)
        /\ C4_Terminated(result) <=> C4_Terminated(text)

\* the last fence line before line i
C6_Opener(i) ==
    CHOOSE k \in 1..(i - 1) :
        /\ IsFenceLine(lines[k])
        /\ \A j \in (k + 1)..(i - 1) : ~IsFenceLine(lines[j])

\* C6: while a fence is open, every line read since the opening fence line
\* has been emitted as one code line, escape_markdown_v2_code(content) and
\* its terminator, right after the fence line itself; at the return this
\* covers every line after an unmatched opener down to the final line.
C6_OpenFenceIsCode ==
    (pc \in {"format", "format_done"} /\ in_code_block) =>
        /\ \E k \in 1..(index - 1) : IsFenceLine(lines[k])
        /\ LET k == C6_Opener(index)
               base == Len(formatted_lines) - (index - 1 - k)
           IN  /\ base >= 1
               /\ formatted_lines[base] = lines[k]
               /\ \A j \in (k + 1)..(index - 1) :
                     formatted_lines[base + (j - k)] =
                         escape_markdown_v2_code(LineContent(lines[j]))
                             \o LineNewline(lines[j])

C6_Witness ==
    /\ pc = "format_done"
    /\ in_code_block
    /\ Len(lines) = 3
    /\ IsFenceLine(lines[1])
    /\ LineContent(lines[2]) = <<BT, "a", BT>>
    /\ formatted_lines[2] = <<BSL, BT, "a", BSL, BT>> \o LineNewline(lines[2])
    /\ Contains(lines[3], "|")
    /\ formatted_lines[3] = lines[3]

-----------------------------------------------------------------------------
(* Any of the functions, called on any of the inputs above *)

Init ==
    \/ InitSplit
    \/ InitEscape
    \/ InitTable
    \/ InitEntities
    \/ InitFormat

Next ==
    \/ NextSplit
    \/ NextEscape
    \/ NextTable
    \/ NextEntities
    \/ NextFormat

Spec == Init /\ [][Next]_vars

=============================================================================
